---- MODULE Spec2Model ----
(***************************************************************************)
(* Model of package lock (ckanner/redis-lock): a distributed mutex on one  *)
(* redis node.  Lock is a bounded retry loop around SETNX-with-expiry,     *)
(* Unlock evaluates UnlockLuaScript (compare the token, then delete).      *)
(*                                                                         *)
(* Durations are counted in units of 100ms: time.Second is 10, the default *)
(* RetryDelay (100 * time.Millisecond) is 1.  Every duration the model     *)
(* draws is a multiple of that unit, so the tests "< 1" of Options.init    *)
(* (which are in nanoseconds) select the same values (zero and negatives). *)
(***************************************************************************)
EXTENDS Integers, FiniteSets, Sequences, TLC

\* ---- bounds ----
MaxRetryCount == 2      \* largest RetryCount a caller passes in
MaxExpiration == 3      \* largest explicit Expiration a caller passes in, in seconds
MaxRetryDelay == 2      \* largest explicit RetryDelay a caller passes in, in seconds

\* ---- program constants ----
Second == 10
DefaultExpiration == 5 * Second
DefaultRetryDelay == 1
DefaultRetryCount == 0

Threads   == {"t1", "t2"}
Instances == {"m1", "m2"}
OptRefs   == {"o1", "o2"}
Keys      == {"job-1"}
Tokens    == {"req-A", "req-B"}

None     == "none"
NoRecord == [val |-> "absent", ttl |-> 0]

\* error values
ErrNil              == "nil"
ErrLockNotAcquired  == "lock not acquired"
ErrUnlockFailed     == "unlock failed"
ErrUnlockKeyExpired == "unlock key expired"
RedisNil            == "redis: nil"
ErrStore            == "store error"
Pending             == "pending"

VARIABLES
  opts,        \* heap of Options values: OptRefs -> Options
  inst,        \* the DistributedMutex instances: Key, Value, Opt (a reference)
  guard,       \* DistributedMutex.Mutex: the thread holding it, or None
  store,       \* the redis node: key -> record (value, remaining ttl)
  pc,          \* position of each thread
  op,          \* the call a thread is in, or made last
  on,          \* the instance of that call
  ret,         \* the error that call returned, Pending while it runs
  retryCount,  \* local variable retryCount of Lock
  sleepLeft,   \* time a sleeping thread still has to sleep
  attempts,    \* history: SetNX calls issued by the call
  sleeps,      \* history: completed time.Sleep calls of the call
  found,       \* history: what the call's last store command found at the key
  transport,   \* history: how the transport treated the call's last store command
  released,    \* history: the instance whose Unlock deleted the record, while no
               \* other store command has been issued since
  holding      \* history: instance is between a Lock that returned nil and the return
               \* of its next Unlock, and no record has expired since that Lock

vars == <<opts, inst, guard, store, pc, op, on, ret, retryCount, sleepLeft,
          attempts, sleeps, found, transport, released, holding>>

\* ---- Options.init ----
\* init gone wrong: a RetryDelay of zero passes for set
OptionsInit_ZeroDelay(o) ==
  [Expiration |-> IF o.Expiration < 1 THEN DefaultExpiration ELSE o.Expiration,
   RetryCount |-> IF o.RetryCount < 0 THEN DefaultRetryCount ELSE o.RetryCount,
   RetryDelay |-> IF o.RetryDelay < 0 THEN DefaultRetryDelay ELSE o.RetryDelay]

OptionsInit(o) ==
  [Expiration |-> IF o.Expiration < 1 THEN DefaultExpiration ELSE o.Expiration,
   RetryCount |-> IF o.RetryCount < 0 THEN DefaultRetryCount ELSE o.RetryCount,
   RetryDelay |-> IF o.RetryDelay < 1 THEN DefaultRetryDelay ELSE o.RetryDelay]

\* Options values callers construct the mutexes with
RawOptions ==
  { [Expiration |-> 0, RetryCount |-> -1, RetryDelay |-> 0],
    [Expiration |-> MaxExpiration * Second, RetryCount |-> MaxRetryCount,
      RetryDelay |-> MaxRetryDelay * Second] }

\* NewDistributedMutex(key, value, client, opt)
NewDistributedMutex(key, value, ref) == [Key |-> key, Value |-> value, Opt |-> ref]

Opt(i) == opts[inst[i].Opt]


\* SetNX gone wrong: a plain SET, which overwrites a record that exists
SetNX_Overwrite(s, key, value, expiration) ==
  [ok |-> TRUE, store |-> [s EXCEPT ![key] = [val |-> value, ttl |-> expiration]]]

\* SetNX gone wrong: the expiration passed in is dropped for the default
SetNX_DefaultTTL(s, key, value, expiration) ==
  IF s[key] = NoRecord
  THEN [ok |-> TRUE,  store |-> [s EXCEPT ![key] = [val |-> value, ttl |-> DefaultExpiration]]]
  ELSE [ok |-> FALSE, store |-> s]

\* ---- the redis node ----
\* SETNX key value PX expiration
\* SetNX gone wrong: a record that exists gets its TTL renewed
SetNX_Renew(s, key, value, expiration) ==
  IF s[key] = NoRecord
  THEN [ok |-> TRUE,  store |-> [s EXCEPT ![key] = [val |-> value, ttl |-> expiration]]]
  ELSE [ok |-> FALSE, store |-> [s EXCEPT ![key].ttl = expiration]]

\* SetNX gone wrong: the holder's own token is let in again
SetNX_Reentrant(s, key, value, expiration) ==
  IF s[key] = NoRecord \/ s[key].val = value
  THEN [ok |-> TRUE,  store |-> [s EXCEPT ![key] = [val |-> value, ttl |-> expiration]]]
  ELSE [ok |-> FALSE, store |-> s]

SetNX(s, key, value, expiration) ==
  IF s[key] = NoRecord
  THEN [ok |-> TRUE,  store |-> [s EXCEPT ![key] = [val |-> value, ttl |-> expiration]]]
  ELSE [ok |-> FALSE, store |-> s]

\* values inside a Lua script
LuaFalse     == [type |-> "boolean", v |-> "false"]
LuaString(x) == [type |-> "string", v |-> x]
LuaNumber(n) == [type |-> "number", v |-> n]

\* redis.call('get', KEYS[1]) inside a script: false for a missing key
LuaGet(s, key) == IF s[key] = NoRecord THEN LuaFalse ELSE LuaString(s[key].val)

\* redis.call('del', KEYS[1]): the number of keys removed
LuaDel(s, key) ==
  IF s[key] = NoRecord THEN [result |-> LuaNumber(0), store |-> s]
                       ELSE [result |-> LuaNumber(1), store |-> [s EXCEPT ![key] = NoRecord]]


\* the script gone wrong: delete by key alone
UnlockLuaScript_DelByKey(s, key, arg) == LuaDel(s, key)

\* the script gone wrong: the comparison negated
UnlockLuaScript_Negated(s, key, arg) ==
  IF LuaGet(s, key) # LuaString(arg)
  THEN LuaDel(s, key)
  ELSE [result |-> LuaNumber(0), store |-> s]

\* UnlockLuaScript: the value the script returns and the store it leaves
UnlockLuaScript(s, key, arg) ==
  IF LuaGet(s, key) = LuaString(arg)
  THEN LuaDel(s, key)
  ELSE [result |-> LuaNumber(0), store |-> s]

\* Cmd.Result() of an Eval: a Lua number is an int64 reply, a Lua false is a
\* nil reply, which the client reports as the error redis.Nil
EvalResult(luaValue) ==
  IF luaValue.type = "number" THEN [res |-> luaValue.v, err |-> ErrNil]
                              ELSE [res |-> 0, err |-> RedisNil]

\* outcome of the transport for one command: delivered and answered, lost
\* before the node ran it, or run by the node with the reply lost
Transport == {"ok", "lost_request", "lost_reply"}

\* ---- time ----
\* the time left to the next things time brings about: the end of a sleep,
\* the expiry of a record
Deadlines ==
  {sleepLeft[t] : t \in {u \in Threads : sleepLeft[u] > 0}}
    \cup {store[k].ttl : k \in {j \in Keys : store[j] # NoRecord}}

Max0(n) == IF n < 0 THEN 0 ELSE n

Age(rec, d) ==
  IF rec = NoRecord THEN NoRecord
  ELSE IF rec.ttl - d < 1 THEN NoRecord ELSE [rec EXCEPT !.ttl = rec.ttl - d]

TypeOK ==
  /\ opts \in [OptRefs -> [Expiration : Int, RetryCount : Int, RetryDelay : Int]]
  /\ guard \in [Instances -> Threads \cup {None}]
  /\ pc \in [Threads -> {"idle", "lock_guard", "lock_try", "lock_sleep", "unlock_guard", "unlock_eval"}]

Init ==
  /\ \E raw \in [OptRefs -> RawOptions] : opts = [r \in OptRefs |-> OptionsInit(raw[r])]
  /\ \E v \in Tokens :
       inst = [i \in Instances |->
                 IF i = "m1" THEN NewDistributedMutex("job-1", "req-A", "o1")
                             ELSE NewDistributedMutex("job-1", v, "o2")]
  /\ guard = [i \in Instances |-> None]
  /\ store = [k \in Keys |-> NoRecord]
  /\ pc = [t \in Threads |-> "idle"]
  /\ op = [t \in Threads |-> None]
  /\ on = [t \in Threads |-> None]
  /\ ret = [t \in Threads |-> None]
  /\ retryCount = [t \in Threads |-> 0]
  /\ sleepLeft = [t \in Threads |-> 0]
  /\ attempts = [t \in Threads |-> 0]
  /\ sleeps = [t \in Threads |-> 0]
  /\ found = [t \in Threads |-> None]
  /\ transport = [t \in Threads |-> None]
  /\ released = None
  /\ holding = [i \in Instances |-> FALSE]

\* ---- DistributedMutex.Lock ----
\* a thread calls d.Lock() and reaches d.Mutex.Lock()
CallLock(t, i) ==
  /\ pc[t] = "idle"
  /\ pc' = [pc EXCEPT ![t] = "lock_guard"]
  /\ op' = [op EXCEPT ![t] = "Lock"]
  /\ on' = [on EXCEPT ![t] = i]
  /\ ret' = [ret EXCEPT ![t] = Pending]
  /\ attempts' = [attempts EXCEPT ![t] = 0]
  /\ sleeps' = [sleeps EXCEPT ![t] = 0]
  /\ found' = [found EXCEPT ![t] = None]
  /\ transport' = [transport EXCEPT ![t] = None]
  /\ UNCHANGED <<opts, inst, guard, store, retryCount, sleepLeft, released, holding>>

\* d.Mutex.Lock() returns; retryCount := d.Opt.RetryCount
LockEnter(t) ==
  /\ pc[t] = "lock_guard"
  /\ guard[on[t]] = None
  /\ guard' = [guard EXCEPT ![on[t]] = t]
  /\ retryCount' = [retryCount EXCEPT ![t] = Opt(on[t]).RetryCount]
  /\ pc' = [pc EXCEPT ![t] = "lock_try"]
  /\ UNCHANGED <<opts, inst, store, op, on, ret, sleepLeft, attempts, sleeps, found, transport, released, holding>>

\* return gone wrong: the guard is released on the success path only
Return_KeepGuardOnError(t, err) ==
  /\ ret' = [ret EXCEPT ![t] = err]
  /\ guard' = IF err = ErrNil THEN [guard EXCEPT ![on[t]] = None] ELSE guard
  /\ pc' = [pc EXCEPT ![t] = "idle"]

\* the error a finished call returns; the deferred d.Mutex.Unlock() runs
Return(t, err) ==
  /\ ret' = [ret EXCEPT ![t] = err]
  /\ guard' = [guard EXCEPT ![on[t]] = None]
  /\ pc' = [pc EXCEPT ![t] = "idle"]

\* what the command found at the key, None when it never reached the node
Found(key, tr) ==
  IF tr = "lost_request" THEN None
  ELSE IF store[key] = NoRecord THEN NoRecord.val ELSE store[key].val


\* the loop gone wrong: one retry too many
LockStep_OffByOne(ok, err, rc) ==
  IF err # ErrNil THEN err
  ELSE IF ok THEN ErrNil
  ELSE IF rc < 0 THEN ErrLockNotAcquired
  ELSE Pending

\* the loop gone wrong: success only looked at once the budget is used up
LockStep_RetryAfterOk(ok, err, rc) ==
  IF err # ErrNil THEN err
  ELSE IF rc <= 0 THEN (IF ok THEN ErrNil ELSE ErrLockNotAcquired)
  ELSE Pending

\* the loop gone wrong: a store error retried like a held key
LockStep_RetryOnError(ok, err, rc) ==
  IF err = ErrNil /\ ok THEN ErrNil
  ELSE IF rc <= 0 THEN ErrLockNotAcquired
  ELSE Pending

\* the loop body of Lock after tryLock returned (ok, err): the error to return,
\* or Pending to sleep and go round again
LockStep(ok, err, rc) ==
  IF err # ErrNil THEN err
  ELSE IF ok THEN ErrNil
  ELSE IF rc <= 0 THEN ErrLockNotAcquired
  ELSE Pending

\* one iteration of the loop of Lock: tryLock, then the tests on its result
TryLock(t) ==
  /\ pc[t] = "lock_try"
  /\ \E tr \in Transport :
       LET i   == on[t]
           r   == SetNX(store, inst[i].Key, inst[i].Value, Opt(i).Expiration)
           ok  == IF tr = "ok" THEN r.ok ELSE FALSE
           err == IF tr = "ok" THEN ErrNil ELSE ErrStore
           out == LockStep(ok, err, retryCount[t])
       IN /\ store' = IF tr = "lost_request" THEN store ELSE r.store
          /\ attempts' = [attempts EXCEPT ![t] = @ + 1]
          /\ found' = [found EXCEPT ![t] = Found(inst[i].Key, tr)]
          /\ transport' = [transport EXCEPT ![t] = tr]
          /\ IF out = Pending
             THEN /\ pc' = [pc EXCEPT ![t] = "lock_sleep"]
                  /\ sleepLeft' = [sleepLeft EXCEPT ![t] = Opt(i).RetryDelay]
                  /\ UNCHANGED <<ret, guard>>
             ELSE /\ Return(t, out)
                  /\ UNCHANGED sleepLeft
          /\ holding' = [holding EXCEPT ![i] = @ \/ out = ErrNil]
  /\ released' = None
  /\ UNCHANGED <<opts, inst, op, on, retryCount, sleeps>>

\* the loop gone wrong: the budget is not counted down
LockWake_NoDecrement(t) ==
  /\ pc[t] = "lock_sleep"
  /\ sleepLeft[t] = 0
  /\ sleeps' = [sleeps EXCEPT ![t] = @ + 1]
  /\ pc' = [pc EXCEPT ![t] = "lock_try"]
  /\ UNCHANGED <<opts, inst, guard, store, op, on, ret, retryCount, sleepLeft, attempts, found, transport, released, holding>>

\* time.Sleep(d.Opt.RetryDelay) returns; retryCount--
LockWake(t) ==
  /\ pc[t] = "lock_sleep"
  /\ sleepLeft[t] = 0
  /\ retryCount' = [retryCount EXCEPT ![t] = @ - 1]
  /\ sleeps' = [sleeps EXCEPT ![t] = @ + 1]
  /\ pc' = [pc EXCEPT ![t] = "lock_try"]
  /\ UNCHANGED <<opts, inst, guard, store, op, on, ret, sleepLeft, attempts, found, transport, released, holding>>

\* ---- DistributedMutex.Unlock ----
CallUnlock(t, i) ==
  /\ pc[t] = "idle"
  /\ pc' = [pc EXCEPT ![t] = "unlock_guard"]
  /\ op' = [op EXCEPT ![t] = "Unlock"]
  /\ on' = [on EXCEPT ![t] = i]
  /\ ret' = [ret EXCEPT ![t] = Pending]
  /\ attempts' = [attempts EXCEPT ![t] = 0]
  /\ sleeps' = [sleeps EXCEPT ![t] = 0]
  /\ found' = [found EXCEPT ![t] = None]
  /\ transport' = [transport EXCEPT ![t] = None]
  /\ UNCHANGED <<opts, inst, guard, store, retryCount, sleepLeft, released, holding>>

\* Unlock gone wrong: it does not wait for the guard to be free
UnlockEnter_NoWait(t) ==
  /\ pc[t] = "unlock_guard"
  /\ guard' = [guard EXCEPT ![on[t]] = t]
  /\ pc' = [pc EXCEPT ![t] = "unlock_eval"]
  /\ UNCHANGED <<opts, inst, store, op, on, ret, retryCount, sleepLeft, attempts, sleeps, found, transport, released, holding>>

UnlockEnter(t) ==
  /\ pc[t] = "unlock_guard"
  /\ guard[on[t]] = None
  /\ guard' = [guard EXCEPT ![on[t]] = t]
  /\ pc' = [pc EXCEPT ![t] = "unlock_eval"]
  /\ UNCHANGED <<opts, inst, store, op, on, ret, retryCount, sleepLeft, attempts, sleeps, found, transport, released, holding>>


\* Unlock gone wrong: the count of deleted keys is not looked at
UnlockError_IgnoreCount(res, err) ==
  IF err = RedisNil THEN ErrUnlockKeyExpired
  ELSE IF err # ErrNil THEN err
  ELSE ErrNil

\* Unlock gone wrong: every error of the store reported as ErrUnlockFailed
UnlockError_Masked(res, err) ==
  IF err = RedisNil THEN ErrUnlockKeyExpired
  ELSE IF err = ErrNil /\ res = 1 THEN ErrNil
  ELSE ErrUnlockFailed

\* the error Unlock returns for the (res, err) of Eval(...).Result()
UnlockError(res, err) ==
  IF err = RedisNil THEN ErrUnlockKeyExpired
  ELSE IF err # ErrNil THEN err
  ELSE IF res = 1 THEN ErrNil
  ELSE ErrUnlockFailed

\* d.Client.Eval(UnlockLuaScript, []string{d.Key}, d.Value).Result() and the tests after it
UnlockEval(t) ==
  /\ pc[t] = "unlock_eval"
  /\ \E tr \in Transport :
       LET i   == on[t]
           s   == UnlockLuaScript(store, inst[i].Key, inst[i].Value)
           rep == IF tr = "ok" THEN EvalResult(s.result) ELSE [res |-> 0, err |-> ErrStore]
       IN /\ store' = IF tr = "lost_request" THEN store ELSE s.store
          /\ attempts' = [attempts EXCEPT ![t] = @ + 1]
          /\ found' = [found EXCEPT ![t] = Found(inst[i].Key, tr)]
          /\ transport' = [transport EXCEPT ![t] = tr]
          /\ Return(t, UnlockError(rep.res, rep.err))
          /\ holding' = [holding EXCEPT ![i] = FALSE]
          /\ released' = IF store'[inst[i].Key] # store[inst[i].Key] THEN i ELSE None
  /\ UNCHANGED <<opts, inst, op, on, retryCount, sleepLeft, sleeps>>

\* ---- environment: time passes; the node drops a record whose TTL ran out ----
Elapse(d) ==
  /\ store' = [k \in Keys |-> Age(store[k], d)]
  /\ sleepLeft' = [t \in Threads |-> Max0(sleepLeft[t] - d)]
  /\ holding' = IF \E k \in Keys : store[k] # NoRecord /\ store'[k] = NoRecord
                THEN [i \in Instances |-> FALSE] ELSE holding
  /\ UNCHANGED <<opts, inst, guard, pc, op, on, ret, retryCount, attempts, sleeps, found, transport, released>>

Next ==
  \/ \E t \in Threads, i \in Instances : CallLock(t, i)
  \/ \E t \in Threads : LockEnter(t)
  \/ \E t \in Threads : TryLock(t)
  \/ \E t \in Threads : LockWake(t)
  \/ \E t \in Threads, i \in Instances : CallUnlock(t, i)
  \/ \E t \in Threads : UnlockEnter(t)
  \/ \E t \in Threads : UnlockEval(t)
  \/ \E d \in Deadlines : Elapse(d)

Spec == Init /\ [][Next]_vars

\* ---- vocabulary of the properties ----
KeyOf(t)   == inst[on[t]].Key
TokenOf(t) == inst[on[t]].Value

\* the step is thread t's SetNX inside Lock / thread t's Eval inside Unlock
AttemptBy(t) == pc[t] = "lock_try" /\ attempts'[t] = attempts[t] + 1
EvalBy(t)    == pc[t] = "unlock_eval" /\ attempts'[t] = attempts[t] + 1

Returned(t, o) == pc[t] = "idle" /\ op[t] = o

DistinctTokens ==
  \A i, j \in Instances : i # j /\ inst[i].Key = inst[j].Key => inst[i].Value # inst[j].Value

\* C1: an Unlock removes a record only if the value stored at the moment of
\* its check is the token of the calling instance; it never removes the
\* record another token re-acquired after the caller's record expired.
C1_UnlockDeletesOnlyOwnToken ==
  [][\A t \in Threads : \A k \in Keys :
       (EvalBy(t) /\ store[k] # NoRecord /\ store'[k] # store[k])
         => (k = KeyOf(t) /\ store[k].val = TokenOf(t))]_vars

\* an Unlock met the record of another token, reported failure, and that
\* record is still in the store under its holder
C1_Witness ==
  \E t \in Threads : \E i \in Instances :
    /\ Returned(t, "Unlock") /\ ret[t] = ErrUnlockFailed
    /\ found[t] \in Tokens \ {TokenOf(t)}
    /\ holding[i] /\ inst[i].Value = found[t]
    /\ store[KeyOf(t)].val = found[t]
    /\ store[KeyOf(t)].ttl < Opt(i).Expiration

\* C2: with pairwise distinct tokens at most one instance is between a Lock
\* that returned nil and the return of its next Unlock, as long as no record
\* expired since; a SetNX that meets a free key creates the record and makes
\* its Lock succeed, a SetNX that meets a record is told the key exists and
\* leaves the store alone.
C2_MutualExclusion ==
  /\ [](DistinctTokens => Cardinality({i \in Instances : holding[i]}) <= 1)
  /\ [][\A t \in Threads :
          (AttemptBy(t) /\ transport'[t] = "ok")
            => IF store[KeyOf(t)] = NoRecord
               THEN ret'[t] = ErrNil /\ store'[KeyOf(t)].val = TokenOf(t)
               ELSE ret'[t] # ErrNil /\ store' = store]_vars

\* two instances with different tokens were in Lock: one holds the key, the
\* other was told the key exists
C2_Witness ==
  \E t, u \in Threads :
    /\ DistinctTokens /\ on[t] # on[u]
    /\ Returned(t, "Lock") /\ ret[t] = ErrNil /\ holding[on[t]]
    /\ op[u] = "Lock" /\ attempts[u] > 0 /\ transport[u] = "ok"
    /\ found[u] = TokenOf(t) /\ ret[u] # ErrNil
    /\ store[KeyOf(t)].val = TokenOf(t)

\* C3: an Unlock that finds no record for the key returns ErrUnlockKeyExpired
\* and leaves the store unchanged.
C3_UnlockAbsentIsKeyExpired ==
  [][\A t \in Threads :
       (EvalBy(t) /\ transport'[t] = "ok" /\ store[KeyOf(t)] = NoRecord)
         => (ret'[t] = ErrUnlockKeyExpired /\ store' = store)]_vars

\* C4: an Unlock that finds a record of another token returns ErrUnlockFailed
\* (unless the store call itself fails), and the record keeps its value and
\* its remaining TTL.
C4_UnlockMismatchFails ==
  [][\A t \in Threads :
       (EvalBy(t) /\ store[KeyOf(t)] # NoRecord /\ store[KeyOf(t)].val # TokenOf(t))
         => /\ store' = store
            /\ transport'[t] = "ok" => ret'[t] = ErrUnlockFailed]_vars

C4_Witness ==
  \E t \in Threads :
    /\ Returned(t, "Unlock") /\ ret[t] = ErrUnlockFailed /\ transport[t] = "ok"
    /\ found[t] \in Tokens \ {TokenOf(t)}
    /\ store[KeyOf(t)].val = found[t]

\* C5: an Unlock that finds a record of its own token deletes it and returns
\* nil; the first attempt of a Lock by another token that is the next store
\* command after that Unlock succeeds, with no sleep and no retry consumed.
C5_UnlockThenLock ==
  /\ [][\A t \in Threads :
          (EvalBy(t) /\ transport'[t] = "ok"
             /\ store[KeyOf(t)] # NoRecord /\ store[KeyOf(t)].val = TokenOf(t))
            => (store'[KeyOf(t)] = NoRecord /\ ret'[t] = ErrNil /\ released' = on[t])]_vars
  /\ [][\A t \in Threads :
          (AttemptBy(t) /\ transport'[t] = "ok" /\ attempts[t] = 0
             /\ released # None /\ inst[released].Key = KeyOf(t)
             /\ inst[released].Value # TokenOf(t))
            => /\ ret'[t] = ErrNil /\ pc'[t] = "idle"
               /\ attempts'[t] = 1 /\ sleeps'[t] = 0 /\ sleepLeft'[t] = 0
               /\ retryCount'[t] = Opt(on[t]).RetryCount
               /\ store'[KeyOf(t)].val = TokenOf(t)]_vars

\* an Unlock deleted its own record and a Lock by another token then
\* succeeded at once
C5_Witness ==
  \E t, u \in Threads :
    /\ Returned(t, "Unlock") /\ ret[t] = ErrNil /\ found[t] = TokenOf(t)
    /\ Returned(u, "Lock") /\ ret[u] = ErrNil /\ TokenOf(u) # TokenOf(t)
    /\ attempts[u] = 1 /\ sleeps[u] = 0 /\ found[u] = NoRecord.val
    /\ store[KeyOf(u)].val = TokenOf(u)

\* C6: a Lock whose first attempt finds no record (the store call not failing)
\* returns nil after that one attempt, and the store then maps the key to the
\* caller's token with a TTL equal to the instance's resolved Expiration.
C6_LockOnFreeKey ==
  [][\A t \in Threads :
       (AttemptBy(t) /\ transport'[t] = "ok" /\ store[KeyOf(t)] = NoRecord)
         => /\ ret'[t] = ErrNil /\ pc'[t] = "idle"
            /\ store' = [store EXCEPT ![KeyOf(t)] =
                           [val |-> TokenOf(t), ttl |-> Opt(on[t]).Expiration]]
            /\ attempts[t] = 0 => attempts'[t] = 1 /\ sleeps'[t] = 0]_vars

C6_Witness ==
  \E t \in Threads :
    /\ Returned(t, "Lock") /\ ret[t] = ErrNil /\ attempts[t] = 1
    /\ found[t] = NoRecord.val
    /\ Opt(on[t]).Expiration = MaxExpiration * Second
    /\ store[KeyOf(t)] = [val |-> TokenOf(t), ttl |-> MaxExpiration * Second]

\* C7: a Lock with resolved RetryCount N that finds a record at every attempt
\* makes exactly N+1 attempts, sleeps RetryDelay between consecutive attempts
\* (N sleeps, none after the last attempt) and returns ErrLockNotAcquired.
C7_ExactlyNPlusOneAttempts ==
  /\ [](\A t \in Threads : op[t] = "Lock" =>
          /\ pc[t] = "lock_guard" => attempts[t] = 0
          /\ pc[t] = "lock_try" => sleeps[t] = attempts[t]
          /\ pc[t] \in {"lock_sleep", "idle"} => sleeps[t] = attempts[t] - 1
          /\ ret[t] = ErrLockNotAcquired =>
                /\ attempts[t] = Opt(on[t]).RetryCount + 1
                /\ sleeps[t] = Opt(on[t]).RetryCount)
  /\ [][\A t \in Threads :
          /\ (AttemptBy(t) /\ transport'[t] = "ok" /\ store[KeyOf(t)] # NoRecord)
               => IF attempts[t] = Opt(on[t]).RetryCount
                  THEN /\ ret'[t] = ErrLockNotAcquired /\ pc'[t] = "idle"
                       /\ sleepLeft'[t] = 0
                  ELSE /\ ret'[t] = Pending /\ pc'[t] = "lock_sleep"
                       /\ sleepLeft'[t] = Opt(on[t]).RetryDelay
          /\ (pc[t] = "lock_sleep" /\ pc'[t] # "lock_sleep") => sleepLeft[t] = 0]_vars

\* a Lock with a retry budget found the key held by another token at every
\* attempt and gave up
C7_Witness ==
  \E t \in Threads :
    /\ Returned(t, "Lock") /\ ret[t] = ErrLockNotAcquired
    /\ Opt(on[t]).RetryCount = MaxRetryCount
    /\ attempts[t] = MaxRetryCount + 1 /\ sleeps[t] = MaxRetryCount
    /\ found[t] \in Tokens \ {TokenOf(t)}

\* C8: a Lock call never issues more than RetryCount + 1 attempts, RetryCount
\* being the resolved, non-negative value, and issues none after an attempt
\* that reported creation.
C8_AttemptsBounded ==
  \A t \in Threads : op[t] = "Lock" =>
    /\ Opt(on[t]).RetryCount >= 0
    /\ attempts[t] <= Opt(on[t]).RetryCount + 1
    /\ (pc[t] \in {"lock_try", "lock_sleep"} /\ transport[t] = "ok") => found[t] \in Tokens

\* a Lock used its whole budget and acquired the key on the last attempt
C8_Witness ==
  \E t \in Threads :
    /\ Returned(t, "Lock") /\ ret[t] = ErrNil
    /\ Opt(on[t]).RetryCount > 0
    /\ attempts[t] = Opt(on[t]).RetryCount + 1

\* C9: when an attempt of Lock fails with a store error, Lock returns that
\* error at once: no sleep, no further attempt even with budget left, no
\* ErrLockNotAcquired.
C9_LockStoreError ==
  \A t \in Threads : (op[t] = "Lock" /\ transport[t] \in Transport \ {"ok"}) =>
    /\ pc[t] = "idle" /\ ret[t] = ErrStore
    /\ sleeps[t] = attempts[t] - 1 /\ sleepLeft[t] = 0

\* a Lock returned the store error of its first attempt with budget left
C9_Witness ==
  \E t \in Threads :
    /\ Returned(t, "Lock") /\ ret[t] = ErrStore
    /\ attempts[t] = 1 /\ retryCount[t] > 0

\* C10: when the Eval of Unlock fails with a store error, Unlock returns that
\* error, not ErrUnlockFailed, ErrUnlockKeyExpired or nil, and issues no
\* further store command.
C10_UnlockStoreError ==
  \A t \in Threads : op[t] = "Unlock" =>
    /\ attempts[t] <= 1
    /\ transport[t] \in Transport \ {"ok"} => (pc[t] = "idle" /\ ret[t] = ErrStore)

C10_Witness ==
  \E t \in Threads :
    /\ Returned(t, "Unlock") /\ ret[t] = ErrStore /\ attempts[t] = 1
    /\ transport[t] = "lost_request" /\ store[KeyOf(t)].val = TokenOf(t)

\* ---- construction and the caller's Options value ----
\* A second specification: the mutexes are not constructed yet, the caller
\* holds Options values of any content, constructs mutexes from them (several
\* from one value, if it likes) and goes on writing to the values it holds.
NoInstance == [Key |-> "", Value |-> "", Opt |-> None]
Constructed(i) == inst[i] # NoInstance

RawExpirations == {-1, 0, 1, MaxExpiration * Second}
RawRetryCounts == -1 .. MaxRetryCount
RawRetryDelays == {-1, 0, 1, MaxRetryDelay * Second}
AnyOptions ==
  [Expiration : RawExpirations, RetryCount : RawRetryCounts, RetryDelay : RawRetryDelays]

InitOptions ==
  /\ opts \in [OptRefs -> AnyOptions]
  /\ inst = [i \in Instances |-> NoInstance]
  /\ guard = [i \in Instances |-> None]
  /\ store = [k \in Keys |-> NoRecord]
  /\ pc = [t \in Threads |-> "idle"]
  /\ op = [t \in Threads |-> None]
  /\ on = [t \in Threads |-> None]
  /\ ret = [t \in Threads |-> None]
  /\ retryCount = [t \in Threads |-> 0]
  /\ sleepLeft = [t \in Threads |-> 0]
  /\ attempts = [t \in Threads |-> 0]
  /\ sleeps = [t \in Threads |-> 0]
  /\ found = [t \in Threads |-> None]
  /\ transport = [t \in Threads |-> None]
  /\ released = None
  /\ holding = [i \in Instances |-> FALSE]

\* NewDistributedMutex(key, value, client, opt): opt.init() writes through the
\* pointer, and the pointer itself is kept in the mutex
Construct(i, value, r) ==
  /\ ~Constructed(i)
  /\ opts' = [opts EXCEPT ![r] = OptionsInit(@)]
  /\ inst' = [inst EXCEPT ![i] = NewDistributedMutex("job-1", value, r)]
  /\ UNCHANGED <<guard, store, pc, op, on, ret, retryCount, sleepLeft,
                 attempts, sleeps, found, transport, released, holding>>

\* the caller assigns to a field of an Options value it holds
WriteExpiration(r, v) ==
  /\ opts[r].Expiration # v
  /\ opts' = [opts EXCEPT ![r].Expiration = v]
  /\ UNCHANGED <<inst, guard, store, pc, op, on, ret, retryCount, sleepLeft,
                 attempts, sleeps, found, transport, released, holding>>

WriteRetryCount(r, v) ==
  /\ opts[r].RetryCount # v
  /\ opts' = [opts EXCEPT ![r].RetryCount = v]
  /\ UNCHANGED <<inst, guard, store, pc, op, on, ret, retryCount, sleepLeft,
                 attempts, sleeps, found, transport, released, holding>>

WriteRetryDelay(r, v) ==
  /\ opts[r].RetryDelay # v
  /\ opts' = [opts EXCEPT ![r].RetryDelay = v]
  /\ UNCHANGED <<inst, guard, store, pc, op, on, ret, retryCount, sleepLeft,
                 attempts, sleeps, found, transport, released, holding>>

NextOptions ==
  \/ \E i \in Instances, v \in Tokens, r \in OptRefs : Construct(i, v, r)
  \/ \E r \in OptRefs, v \in RawExpirations : WriteExpiration(r, v)
  \/ \E r \in OptRefs, v \in RawRetryCounts : WriteRetryCount(r, v)
  \/ \E r \in OptRefs, v \in RawRetryDelays : WriteRetryDelay(r, v)

SpecOptions == InitOptions /\ [][NextOptions]_vars

Resolved(o) == o.Expiration >= 1 /\ o.RetryCount >= 0 /\ o.RetryDelay >= 1

\* C11: resolution gives Expiration 5s for a given Expiration < 1 and the
\* given value otherwise, RetryCount 0 for a given RetryCount < 0 and the
\* given value otherwise, RetryDelay 100ms for a given RetryDelay < 1 and the
\* given value otherwise, each field by itself; no other Options value is
\* touched, and a resolved policy is left as it is by a further resolution.
C11_Resolution ==
  [][\A i \in Instances : (~Constructed(i) /\ inst'[i] # NoInstance) =>
       LET r == inst'[i].Opt
           given == opts[r]
           got   == opts'[r]
       IN /\ got.Expiration = IF given.Expiration < 1 THEN 5 * Second ELSE given.Expiration
          /\ got.RetryCount = IF given.RetryCount < 0 THEN 0 ELSE given.RetryCount
          /\ got.RetryDelay = IF given.RetryDelay < 1 THEN Second \div 10 ELSE given.RetryDelay
          /\ \A q \in OptRefs \ {r} : opts'[q] = opts[q]
          /\ Resolved(got)
          /\ Resolved(given) => got = given]_vars

\* two mutexes were constructed from one Options value that was all unset:
\* the first construction put the defaults in, the second left them
C11_Witness ==
  \E i, j \in Instances :
    /\ i # j /\ Constructed(i) /\ Constructed(j) /\ inst[i].Opt = inst[j].Opt
    /\ Opt(i) = [Expiration |-> 5 * Second, RetryCount |-> 0, RetryDelay |-> 1]

\* C13: the policy of a constructed mutex is immutable and its own: nothing
\* the caller does to the Options value it passed in, and no construction of
\* another mutex, changes the Expiration, RetryCount or RetryDelay that the
\* mutex's Lock reads.
C13_PolicyImmutable ==
  [][\A i \in Instances : Constructed(i) => opts'[inst'[i].Opt] = opts[inst[i].Opt]]_vars

\* ---- the local guard ----
\* the call of thread t is past d.Mutex.Lock() and has not returned
PastGuard(t) == pc[t] \in {"lock_try", "lock_sleep", "unlock_eval"}
Blocked(t)   == pc[t] \in {"lock_guard", "unlock_guard"}

\* C12: at most one Lock or Unlock call on an instance is past the guard at
\* any time, and it is the call of the thread holding the guard (store
\* commands are issued only past the guard, so none of another call on the
\* instance falls between its start and its return, its sleeps included);
\* calls on different instances do not exclude each other.
C12_GuardSerializes ==
  \A t \in Threads : PastGuard(t) =>
    /\ guard[on[t]] = t
    /\ \A u \in Threads \ {t} : PastGuard(u) => on[u] # on[t]

\* a Lock sleeps between two attempts while a call of another thread on the
\* same instance waits for the guard
C12_Witness ==
  \E t, u \in Threads :
    /\ t # u /\ on[t] = on[u]
    /\ pc[t] = "lock_sleep" /\ attempts[t] > 0
    /\ Blocked(u)

\* calls on two instances are past their guards at the same time
C12_DifferentInstancesOverlap ==
  \E t, u \in Threads : t # u /\ on[t] # on[u] /\ PastGuard(t) /\ PastGuard(u)

\* ---- progress ----
\* Each store command is answered or fails, each sleep ends once its time is
\* over, and time goes on.
TimePasses == \E d \in Deadlines : Elapse(d)

LockProgress ==
  /\ \A t \in Threads : WF_vars(TryLock(t)) /\ WF_vars(LockWake(t))
  /\ WF_vars(TimePasses)

\* progress is checked from the constructions in which one mutex has the
\* default policy and the other one a retry budget
InitFair ==
  /\ Init
  /\ opts["o1"].RetryCount = 0
  /\ opts["o2"].RetryCount = MaxRetryCount

FairSpec == InitFair /\ [][Next]_vars /\ LockProgress

InLock(t) == pc[t] \in {"lock_try", "lock_sleep"}

\* C14: a Lock call past the guard eventually returns (nil, ErrLockNotAcquired
\* or a store error), whatever the other instances do; its retry budget goes
\* down by one with every retry and never up during the call.
C14_LockTerminates ==
  /\ \A t \in Threads :
        InLock(t) ~> (pc[t] = "idle" /\ ret[t] \in {ErrNil, ErrLockNotAcquired, ErrStore})
  /\ [][\A t \in Threads : (InLock(t) /\ pc'[t] \in {"lock_try", "lock_sleep"}) =>
          /\ retryCount'[t] = IF pc[t] = "lock_sleep" /\ pc'[t] = "lock_try"
                               THEN retryCount[t] - 1 ELSE retryCount[t]
          /\ retryCount'[t] >= 0]_vars

\* a Lock that went through its whole budget has returned
C14_Witness ==
  \E t \in Threads :
    /\ Returned(t, "Lock") /\ ret[t] = ErrLockNotAcquired
    /\ sleeps[t] = MaxRetryCount /\ retryCount[t] = 0

\* sync.Mutex does not starve a waiter: a call that finds the guard free again
\* and again gets it; an Unlock's Eval is answered or fails
GuardProgress ==
  \A t \in Threads :
    SF_vars(LockEnter(t)) /\ SF_vars(UnlockEnter(t)) /\ WF_vars(UnlockEval(t))

InitGuard == InitFair /\ DistinctTokens

GuardSpec == InitGuard /\ [][Next]_vars /\ LockProgress /\ GuardProgress

\* C15: every exit of Lock and of Unlock releases the guard: a guard is held
\* only by a call in progress on its instance, so a call waiting for a guard
\* gets past it, and the instance can be used again after any outcome.
C15_GuardReleased ==
  /\ [](\A i \in Instances : guard[i] # None => (PastGuard(guard[i]) /\ on[guard[i]] = i))
  /\ [][\A t \in Threads : (PastGuard(t) /\ pc'[t] = "idle") => guard'[on[t]] = None]_vars
  /\ \A t \in Threads : Blocked(t) ~> PastGuard(t)

\* an Unlock left with an error, and a later call is past the guard of the
\* same instance
C15_Witness ==
  \E t, u \in Threads :
    /\ t # u /\ on[t] = on[u]
    /\ Returned(t, "Unlock") /\ ret[t] = ErrUnlockFailed
    /\ PastGuard(u)

\* ---- the record ----
\* C16: a Lock attempt that finds a record for the key leaves the store as it
\* was, token and remaining TTL, whoever the contender and whatever the
\* transport does with the command.
C16_FailedAttemptChangesNothing ==
  [][\A t \in Threads :
       (AttemptBy(t) /\ store[KeyOf(t)] # NoRecord) => store' = store]_vars

\* a contender retried against a record that has aged meanwhile and is still
\* the holder's, with less than its full TTL left
C16_Witness ==
  \E t \in Threads : \E i \in Instances :
    /\ op[t] = "Lock" /\ attempts[t] >= 2 /\ transport[t] = "ok"
    /\ found[t] \in Tokens \ {TokenOf(t)}
    /\ inst[i].Value = found[t] /\ holding[i]
    /\ store[KeyOf(t)].val = found[t]
    /\ store[KeyOf(t)].ttl < Opt(i).Expiration

\* C19: Lock is not re-entrant: an attempt that finds the caller's own token
\* in the record is told the key exists like any contender, the record and
\* its TTL stay as they are, and the call gives up with ErrLockNotAcquired
\* when the budget is used up.
C19_NotReentrant ==
  [][\A t \in Threads :
       (AttemptBy(t) /\ transport'[t] = "ok"
          /\ store[KeyOf(t)] # NoRecord /\ store[KeyOf(t)].val = TokenOf(t))
         => /\ store' = store
            /\ ret'[t] # ErrNil
            /\ IF retryCount[t] <= 0
               THEN ret'[t] = ErrLockNotAcquired /\ pc'[t] = "idle"
               ELSE ret'[t] = Pending /\ pc'[t] = "lock_sleep"]_vars

\* a Lock gave up on a key that its own token holds, the record not renewed
C19_Witness ==
  \E t \in Threads :
    /\ Returned(t, "Lock") /\ ret[t] = ErrLockNotAcquired
    /\ attempts[t] = Opt(on[t]).RetryCount + 1
    /\ found[t] = TokenOf(t)
    /\ store[KeyOf(t)].val = TokenOf(t)
    /\ store[KeyOf(t)].ttl < Opt(on[t]).Expiration

\* the step is the passing of enough time for the record of key k to expire
ExpiryOf(k) ==
  /\ pc' = pc /\ attempts' = attempts
  /\ \E d \in Deadlines :
       /\ d >= store[k].ttl
       /\ sleepLeft' = [t \in Threads |-> Max0(sleepLeft[t] - d)]

\* C17: with pairwise distinct tokens the record of a key is the one the most
\* recent creating Lock attempt put there: while an instance holds (its Lock
\* returned nil, no Unlock of it returned and nothing expired since) the
\* record carries its token; a record appears only by the SetNX of a Lock
\* attempt, with the caller's token, and that Lock returns nil (unless the
\* reply is lost); it keeps its value and never gains TTL while it exists;
\* it disappears only by an Unlock whose token matches or by expiry.
C17_RecordLifecycle ==
  /\ [](DistinctTokens =>
          \A i \in Instances : holding[i] => store[inst[i].Key].val = inst[i].Value)
  /\ [][\A k \in Keys :
          /\ (store[k] = NoRecord /\ store'[k] # NoRecord) =>
                \E t \in Threads :
                  /\ AttemptBy(t) /\ KeyOf(t) = k /\ store'[k].val = TokenOf(t)
                  /\ transport'[t] = "ok" => ret'[t] = ErrNil
          /\ (store[k] # NoRecord /\ store'[k] # NoRecord) =>
                (store'[k].val = store[k].val /\ store'[k].ttl <= store[k].ttl)
          /\ (store[k] # NoRecord /\ store'[k] = NoRecord) =>
                \/ \E t \in Threads :
                     EvalBy(t) /\ KeyOf(t) = k /\ store[k].val = TokenOf(t)
                \/ ExpiryOf(k)]_vars

\* a Lock was refused at first and created the record on a later attempt,
\* the earlier record being gone; an Unlock by another token met the new
\* record and left it there
C17_Witness ==
  \E t, u \in Threads :
    /\ DistinctTokens
    /\ Returned(t, "Lock") /\ ret[t] = ErrNil /\ attempts[t] >= 2 /\ holding[on[t]]
    /\ Returned(u, "Unlock") /\ ret[u] = ErrUnlockFailed /\ found[u] = TokenOf(t)
    /\ TokenOf(u) # TokenOf(t)
    /\ store[KeyOf(t)] = [val |-> TokenOf(t), ttl |-> Opt(on[t]).Expiration]

\* ---- a holder that never unlocks ----
\* A third specification: one thread locks once through its mutex and is
\* never heard of again, nobody calls Unlock, and another thread keeps
\* calling Lock through another mutex on the same key.
Crashed      == "t1"
CrashedMutex == "m1"
Contender      == "t2"
ContenderMutex == "m2"

\* the contender's attempt is answered, and finds the key free
ContenderGetsThrough ==
  /\ TryLock(Contender)
  /\ store[KeyOf(Contender)] = NoRecord
  /\ transport'[Contender] = "ok"

NextLockout ==
  \/ op[Crashed] = None /\ CallLock(Crashed, CrashedMutex)
  \/ CallLock(Contender, ContenderMutex)
  \/ \E t \in Threads : LockEnter(t)
  \/ \E t \in Threads : TryLock(t)
  \/ \E t \in Threads : LockWake(t)
  \/ TimePasses

\* time goes on (records expire), the contender keeps calling and advancing,
\* and the store does not fail it every time it finds the key free
LockoutProgress ==
  /\ WF_vars(TimePasses)
  /\ WF_vars(CallLock(Contender, ContenderMutex))
  /\ WF_vars(LockEnter(Contender))
  /\ WF_vars(TryLock(Contender))
  /\ WF_vars(LockWake(Contender))
  /\ SF_vars(ContenderGetsThrough)

SpecLockout == Init /\ [][NextLockout]_vars /\ LockoutProgress

\* C18: when the holder never unlocks, its record is removed in the end and
\* a contender that keeps calling Lock has a Lock return nil; no step gives a
\* record more TTL than it has, so none outlives the Expiration it was
\* created with.
C18_NoPermanentLockout ==
  /\ \A k \in Keys : (store[k] # NoRecord) ~> (store[k] = NoRecord)
  /\ \A k \in Keys :
        (store[k] # NoRecord) ~> (Returned(Contender, "Lock") /\ ret[Contender] = ErrNil)
  /\ [][\A k \in Keys : (store[k] # NoRecord /\ store'[k] # NoRecord) =>
          store'[k].ttl <= store[k].ttl]_vars

\* the holder locked and never unlocked, its record has expired, and the
\* contender holds the key
C18_Witness ==
  /\ op[Crashed] = "Lock" /\ ret[Crashed] = ErrNil /\ ~holding[CrashedMutex]
  /\ Returned(Contender, "Lock") /\ ret[Contender] = ErrNil /\ holding[ContenderMutex]
  /\ store[KeyOf(Contender)].val = TokenOf(Contender)

\* ---- an instance that never locked ----
\* A fourth specification: the behaviours in which no Lock through one of the
\* mutexes ever succeeds or reaches the store with its reply lost; its Lock
\* calls, if any, are refused.
Stranger == "m2"

StrangerLocksFail ==
  \A t \in Threads :
    (AttemptBy(t) /\ on[t] = Stranger) => ret'[t] \in {Pending, ErrLockNotAcquired}

NextStranger ==
  \/ \E t \in Threads, i \in Instances : CallLock(t, i)
  \/ \E t \in Threads : LockEnter(t)
  \/ \E t \in Threads : TryLock(t) /\ StrangerLocksFail
  \/ \E t \in Threads : LockWake(t)
  \/ \E t \in Threads, i \in Instances : CallUnlock(t, i)
  \/ \E t \in Threads : UnlockEnter(t)
  \/ \E t \in Threads : UnlockEval(t)
  \/ TimePasses

SpecStranger == Init /\ [][NextStranger]_vars

\* C20: Unlock through an instance that never had a successful Lock deletes
\* the record and returns nil exactly when the stored value is that
\* instance's token, and otherwise changes nothing; so with pairwise distinct
\* tokens it never deletes anything, and with a shared token it removes the
\* record the other instance created.
C20_OwnershipByTokenAlone ==
  [][\A t \in Threads : (EvalBy(t) /\ on[t] = Stranger) =>
       LET k == KeyOf(t)
           match == store[k] # NoRecord /\ store[k].val = TokenOf(t)
       IN /\ transport'[t] = "ok" =>
               IF match THEN ret'[t] = ErrNil /\ store'[k] = NoRecord
                        ELSE ret'[t] # ErrNil /\ store' = store
          /\ store' # store => match
          /\ DistinctTokens => store' = store]_vars

\* the other instance locked and still counts itself the holder; the instance
\* that never locked, sharing its token, unlocked and the record is gone
C20_Witness ==
  \E t, u \in Threads :
    /\ on[u] = Stranger /\ Returned(u, "Unlock") /\ ret[u] = ErrNil
    /\ found[u] = TokenOf(u)
    /\ on[t] # Stranger /\ Returned(t, "Lock") /\ ret[t] = ErrNil /\ holding[on[t]]
    /\ store[KeyOf(t)] = NoRecord

====
